---- MODULE Spec2Model ----
(***************************************************************************)
(* embedded-plots: Curve, Axis and SinglePlot drawing onto a DrawTarget.   *)
(*                                                                         *)
(* The drawing target is modelled as a log of the draw calls it received,  *)
(* each with the outcome it returned.  Line thickness is not modelled.     *)
(* Pixel and data values are small, so i32 arithmetic never overflows.     *)
(***************************************************************************)
EXTENDS Integers, Sequences, FiniteSets, TLC

VARIABLES
    pc,           \* position of the caller / of the running draw
    curves,       \* the slice handed to SinglePlot::new: sequence of [curve, color]
    x_scale,      \* SinglePlot.x_scale
    y_scale,      \* SinglePlot.y_scale
    new_result,   \* what SinglePlot::new returned: "none", "Ok" (a plot over curves), "Err"
    top_left,     \* DrawableSinglePlot.top_left
    bottom_right, \* DrawableSinglePlot.bottom_right
    color,        \* DrawableSinglePlot.color      (Option)
    text_color,   \* DrawableSinglePlot.text_color (Option)
    axis_color,   \* DrawableSinglePlot.axis_color (Option)
    axis,         \* the DrawableAxis being drawn
    marks,        \* scale_marks: the ticks the iterator has still to yield
    tick_bound,   \* tick_text_left_pos_bound of the vertical axis
    ci,           \* index of the curve the plot's loop is at
    curve,        \* the Curve of the stand-alone curve entry point
    into_result,  \* what its into_drawable_curve returned: "none", "Ok", "Err"
    seg,          \* index of the tuple window the curve draw is at
    log,          \* the draw calls the target received, in order
    result,       \* what draw returned: "none", "Ok", an error, or the panic it ended in
    built_by,     \* how the stand-alone curve was built: "none", "from_data", "new"
    draws,        \* how many times the stand-alone DrawableCurve was drawn
    prev_log,     \* the draw calls of its draw before the current one
    scale_srcs    \* the source ranges scale_between_ranges was called with

vars == <<pc, curves, x_scale, y_scale, new_result, top_left, bottom_right,
          color, text_color, axis_color, axis, marks, tick_bound, ci,
          curve, into_result, seg, log, result, built_by, draws, prev_log,
          scale_srcs>>

(***************************************************************************)
(* Bounds of the model                                                     *)
(***************************************************************************)
\* longest curve collection handed to SinglePlot::new
MaxCurves == 2
\* largest argument of Scale::RangeFraction
MaxScale == 3
\* longest point slice handed to Curve::from_data / Curve::new
MaxPoints == 3
\* most draws of one DrawableCurve
MaxDraws == 2

None == "None"

\* the panics a draw can end in instead of returning
DivPanic == "panic: attempt to divide by zero"
IndexPanic == "panic: index out of bounds"

\* C::default()
DefaultColor == "default"

\* errors the drawing target can return
Errors == {"E1", "E2"}
Outcomes == {"Ok"} \cup Errors

Pt(px, py) == [x |-> px, y |-> py]
Rng(s, e) == [start |-> s, end |-> e]

Max(a, b) == IF a >= b THEN a ELSE b
Abs(n) == IF n < 0 THEN -n ELSE n

\* i32 division truncates toward zero
TruncDiv(a, b) ==
    LET q == Abs(a) \div Abs(b)
    IN  IF (a < 0) # (b < 0) THEN -q ELSE q

(***************************************************************************)
(* core::ops::Range<i32>                                                   *)
(***************************************************************************)
RangeIsEmpty(r) == ~(r.start < r.end)

RangeLen(r) == IF r.start < r.end THEN r.end - r.start ELSE 0

\* range.into_iter().step_by(step): start, start+step, ... below end
StepBy(r, step) ==
    LET n == (RangeLen(r) + step - 1) \div step
    IN  [k \in 1..n |-> r.start + (k - 1) * step]

(***************************************************************************)
(* range_conv::Scalable                                                    *)
(***************************************************************************)
ScaleBetweenRanges(v, src, dst) ==
    dst.start + TruncDiv((v - src.start) * (dst.end - dst.start), src.end - src.start)

(***************************************************************************)
(* curve.rs                                                                *)
(***************************************************************************)
\* a variant of IntoDrawableCurveErr that leaves the extents unchecked
IntoDrawableCurveErrRectOnly(c, tl, br) == tl.x > br.x \/ tl.y > br.y

RECURSIVE SeqMin(_), SeqMax(_)
SeqMin(s) ==
    IF Len(s) = 1 THEN s[1]
    ELSE LET m == SeqMin(Tail(s)) IN IF s[1] <= m THEN s[1] ELSE m
SeqMax(s) ==
    IF Len(s) = 1 THEN s[1]
    ELSE LET m == SeqMax(Tail(s)) IN IF s[1] >= m THEN s[1] ELSE m

\* a variant of MinMaxRange that makes the range's end inclusive
MinMaxRangeInclusive(vals) ==
    IF Len(vals) = 0 THEN Rng(0, 0) ELSE Rng(SeqMin(vals), SeqMax(vals) + 1)

\* itertools minmax() matched into a range
MinMaxRange(vals) ==
    IF Len(vals) = 0 THEN Rng(0, 0)
    ELSE IF Len(vals) = 1 THEN Rng(vals[1], vals[1])
    ELSE Rng(SeqMin(vals), SeqMax(vals))

CurveNew(points, xr, yr) == [points |-> points, x_range |-> xr, y_range |-> yr]

FromData(points) ==
    CurveNew(points,
             MinMaxRange([i \in 1..Len(points) |-> points[i].x]),
             MinMaxRange([i \in 1..Len(points) |-> points[i].y]))

\* the guard of into_drawable_curve: TRUE when it returns Err("Invalid range")
IntoDrawableCurveErr(c, tl, br) ==
    \/ tl.x > br.x
    \/ tl.y > br.y
    \/ RangeIsEmpty(c.x_range)
    \/ RangeIsEmpty(c.y_range)

\* destination ranges of the curve's mapping
CurveXDest(tl, br) == Rng(tl.x, br.x)
CurveYDest(tl, br) == Rng(br.y, tl.y)

\* a variant of ScaledPoint that scales x from the y extent
ScaledPointFromYExtent(c, p, tl, br) ==
    Pt(ScaleBetweenRanges(p.x, c.y_range, CurveXDest(tl, br)),
       ScaleBetweenRanges(p.y, c.y_range, CurveYDest(tl, br)))

\* one item of scaled_data
ScaledPoint(c, p, tl, br) ==
    Pt(ScaleBetweenRanges(p.x, c.x_range, CurveXDest(tl, br)),
       ScaleBetweenRanges(p.y, c.y_range, CurveYDest(tl, br)))

\* scaled_data: the mapped points, one per sample, in sample order
ScaledData(c, tl, br) == [k \in 1..Len(c.points) |-> ScaledPoint(c, c.points[k], tl, br)]

\* the source ranges the walk of scaled_data hands to scale_between_ranges:
\* every sample pulled from the iterator is mapped, x from the x extent and y
\* from the y extent
ScaleSrcsOf(c) == IF Len(c.points) >= 1 THEN {c.x_range, c.y_range} ELSE {}

\* a variant of FirstWindow that goes on from the window the last draw of the
\* iterator stopped at
FirstWindowResumed(last) == Max(last, 1)

\* self.scaled_data.clone().tuple_windows(): draw takes &self and walks a
\* clone, so the first window is that of the first two samples, wherever the
\* last walk stopped
FirstWindow(last) == 1

(***************************************************************************)
(* axis.rs                                                                 *)
(***************************************************************************)
Fixed(n) == [kind |-> "Fixed", n |-> n]
RangeFraction(n) == [kind |-> "RangeFraction", n |-> n]

\* no scale given yet
NoScale == [kind |-> None, n |-> 0]

PlacementX(x1, x2, y) == [kind |-> "X", p1 |-> x1, p2 |-> x2, at |-> y]
PlacementY(y1, y2, x) == [kind |-> "Y", p1 |-> y1, p2 |-> y2, at |-> x]

\* tick_size.unwrap_or(2)
DefaultTickSize == 2

\* no axis built yet; tick_size holds the value after unwrap_or
NoAxis == [range |-> Rng(0, 0), title |-> None, scale |-> NoScale,
           placement |-> [kind |-> None, p1 |-> 0, p2 |-> 0, at |-> 0],
           color |-> None, text_color |-> None,
           tick_size |-> DefaultTickSize]

\* i32::MAX
I32Max == 2147483647
\* FONT_5X8: every glyph is 5 pixels wide
FontWidth == 5
\* offset of the horizontal axis title below the axis line
TitleOffset == 10
\* offset of a horizontal tick label from its tick
LabelOffset == 2

AxisColorOf(a) == IF a.color = None THEN DefaultColor ELSE a.color
AxisTickSize(a) == a.tick_size

\* the color of character_style, used for every text of the axis
CharacterColor(a) == AxisColorOf(a)

\* usize division by zero: `len / fraction` with fraction = 0
ScaleMarksPanics(a) == a.scale.kind = "RangeFraction" /\ a.scale.n = 0

\* the argument of step_by
ScaleMarksStep(a) ==
    IF a.scale.kind = "Fixed"
    THEN Max(a.scale.n, 1)
    ELSE Max(RangeLen(a.range) \div a.scale.n, 1)

ScaleMarks(a) == StepBy(a.range, ScaleMarksStep(a))

\* a variant of TickDest that scales the vertical ticks from y1 to y2
TickDestNotInverted(pl) == Rng(pl.p1, pl.p2)

\* the pixel range the ticks are scaled into
TickDest(pl) == IF pl.kind = "X" THEN Rng(pl.p1, pl.p2) ELSE Rng(pl.p2, pl.p1)

TickPos(a, mark) == ScaleBetweenRanges(mark, a.range, TickDest(a.placement))

\* write!(buf, "{}", mark): the decimal digits of mark, with its sign
Digit(d) == <<"0", "1", "2", "3", "4", "5", "6", "7", "8", "9">>[d + 1]
RECURSIVE Digits(_)
Digits(n) == IF n < 10 THEN <<Digit(n)>> ELSE Append(Digits(n \div 10), Digit(n % 10))
Format(mark) == IF mark < 0 THEN <<"-">> \o Digits(-mark) ELSE Digits(mark)

\* bounding_box().top_left.x of a right-aligned text drawn at x
TextLeft(x, text) == IF Len(text) = 0 THEN x ELSE x - (FontWidth * Len(text) - 1)

(***************************************************************************)
(* draw calls                                                              *)
(***************************************************************************)
LineCall(comp, idx, part, s, e, col, r) ==
    [op |-> "line", comp |-> comp, idx |-> idx, part |-> part,
     start |-> s, end |-> e, color |-> col, text |-> <<>>, res |-> r]

TextCall(comp, part, txt, pos, col, r) ==
    [op |-> "text", comp |-> comp, idx |-> 0, part |-> part,
     start |-> pos, end |-> pos, color |-> col, text |-> txt, res |-> r]

\* the main line of the axis
AxisLineCall(a, r) ==
    LET pl == a.placement
    IN  IF pl.kind = "X"
        THEN LineCall("X", 0, "line", Pt(pl.p1, pl.at), Pt(pl.p2, pl.at), AxisColorOf(a), r)
        ELSE LineCall("Y", 0, "line", Pt(pl.at, pl.p1), Pt(pl.at, pl.p2), AxisColorOf(a), r)

AxisTitleCall(a, bound, r) ==
    LET pl == a.placement
    IN  IF pl.kind = "X"
        THEN TextCall("X", "title", <<a.title>>,
                      Pt(pl.p1 + TruncDiv(pl.p2 - pl.p1, 2), pl.at + TitleOffset),
                      CharacterColor(a), r)
        ELSE TextCall("Y", "title", <<a.title>>,
                      Pt(bound - 1, pl.p1 + TruncDiv(pl.p2 - pl.p1, 2)),
                      CharacterColor(a), r)

AxisTickCall(a, mark, r) ==
    LET pl == a.placement
        p  == TickPos(a, mark)
        t  == AxisTickSize(a)
    IN  IF pl.kind = "X"
        THEN LineCall("X", 0, "tick", Pt(p, pl.at - t), Pt(p, pl.at + t), AxisColorOf(a), r)
        ELSE LineCall("Y", 0, "tick", Pt(pl.at - t, p), Pt(pl.at + t, p), AxisColorOf(a), r)

AxisLabelCall(a, mark, r) ==
    LET pl == a.placement
        p  == TickPos(a, mark)
    IN  IF pl.kind = "X"
        THEN TextCall("X", "label", Format(mark),
                      Pt(p + LabelOffset, pl.at + LabelOffset), CharacterColor(a), r)
        ELSE TextCall("Y", "label", Format(mark), Pt(pl.at, p), CharacterColor(a), r)

\* where the axis draw goes once the tick loop has `ms` left
TitlePc(a) == IF a.title = None THEN "axis_done" ELSE "axis_title"
TicksPc(a, ms) ==
    IF ms # <<>> THEN "axis_tick"
    ELSE IF a.placement.kind = "X" THEN "axis_done" ELSE TitlePc(a)

(***************************************************************************)
(* single_plot.rs                                                          *)
(***************************************************************************)
\* a variant of NewRejects that lets the empty collection through
NewRejectsNothing(cs) == Len(cs) < 0

\* SinglePlot::new: TRUE when it returns Err("No curves provided")
NewRejects(cs) == Len(cs) < 1

Unwrap(opt, default) == IF opt = None THEN default ELSE opt

\* the styling DrawableSinglePlot::draw resolves
PlotColor == Unwrap(color, DefaultColor)
PlotTextColor == Unwrap(text_color, PlotColor)
PlotAxisColor == Unwrap(axis_color, PlotColor)

\* the horizontal axis the plot builds
XAxis ==
    [range |-> curves[1].curve.x_range, title |-> "X", scale |-> x_scale,
     placement |-> PlacementX(top_left.x, bottom_right.x, bottom_right.y),
     color |-> PlotAxisColor, text_color |-> PlotTextColor, tick_size |-> 2]

\* the vertical axis the plot builds
YAxis ==
    [range |-> curves[1].curve.y_range, title |-> "Y", scale |-> y_scale,
     placement |-> PlacementY(top_left.y, bottom_right.y, top_left.x),
     color |-> PlotAxisColor, text_color |-> PlotTextColor, tick_size |-> 2]

(***************************************************************************)
(* Inputs                                                                  *)
(***************************************************************************)
Example1 == <<Pt(0, 0), Pt(1, 2), Pt(2, 2), Pt(3, 0)>>

\* the (Curve, color) pairs plots are built from
PlotCurves ==
    { [curve |-> FromData(Example1), color |-> "yellow"],
      [curve |-> FromData(<<Pt(5, 5)>>), color |-> "red"],
      [curve |-> CurveNew(<<Pt(0, 1), Pt(4, 4)>>, Rng(0, 4), Rng(0, 3)), color |-> "green"] }

SeqsUpTo(S, n) == UNION { [1..k -> S] : k \in 0..n }

\* the intervals of Scale::Fixed
FixedSteps == {0, 2}

Scales == { Fixed(n) : n \in FixedSteps } \cup { RangeFraction(n) : n \in 0..MaxScale }

\* destination rectangles of plots: the example's, and one inverted in x
PlotRects ==
    { <<Pt(50, 10), Pt(430, 250)>>,
      <<Pt(430, 10), Pt(50, 250)>> }

\* destination rectangles of stand-alone curves: also one inverted in y
Rects == PlotRects \cup { <<Pt(50, 250), Pt(430, 10)>> }

\* sample points of stand-alone curves
SamplePoints == { Pt(0, 0), Pt(1, 2), Pt(2, 2), Pt(2, 1), Pt(3, 0) }

\* explicit extents of Curve::new
Extents == { Rng(0, 3), Rng(3, 0), Rng(1, 1) }

\* placements of stand-alone axes: the edges of the example's rectangle
Placements == { PlacementX(50, 430, 250), PlacementY(10, 250, 50) }

\* titles of stand-alone axes: none set, or one
Titles == { None, "T" }

(***************************************************************************)
(* State machine                                                           *)
(***************************************************************************)
Init ==
    /\ pc = "start"
    /\ curves = <<>>
    /\ x_scale = NoScale
    /\ y_scale = NoScale
    /\ new_result = "none"
    /\ top_left = Pt(0, 0)
    /\ bottom_right = Pt(0, 0)
    /\ color = None
    /\ text_color = None
    /\ axis_color = None
    /\ axis = NoAxis
    /\ marks = <<>>
    /\ tick_bound = I32Max
    /\ ci = 0
    /\ curve = CurveNew(<<>>, Rng(0, 0), Rng(0, 0))
    /\ into_result = "none"
    /\ seg = 0
    /\ log = <<>>
    /\ result = "none"
    /\ built_by = "none"
    /\ draws = 0
    /\ prev_log = <<>>
    /\ scale_srcs = {}

\* SinglePlot::new(curves, x_scale, y_scale)
New ==
    /\ pc = "start"
    /\ \E cs \in SeqsUpTo(PlotCurves, MaxCurves), xs \in Scales, ys \in Scales :
          /\ curves' = cs
          /\ IF NewRejects(cs)
             THEN /\ new_result' = "Err"
                  /\ pc' = "rejected"
                  /\ UNCHANGED <<x_scale, y_scale>>
             ELSE /\ new_result' = "Ok"
                  /\ pc' = "plot"
                  /\ x_scale' = xs
                  /\ y_scale' = ys
    /\ UNCHANGED <<top_left, bottom_right, color, text_color, axis_color, axis,
                   marks, tick_bound, ci, curve, into_result, seg, log, result>>
    /\ UNCHANGED <<built_by, draws, prev_log, scale_srcs>>

\* SinglePlot::into_drawable(top_left, bottom_right)
IntoDrawable ==
    /\ pc = "plot"
    /\ \E r \in PlotRects :
          /\ top_left' = r[1]
          /\ bottom_right' = r[2]
    /\ pc' = "drawable"
    /\ UNCHANGED <<curves, x_scale, y_scale, new_result, color, text_color,
                   axis_color, axis, marks, tick_bound, ci, curve, into_result,
                   seg, log, result>>
    /\ UNCHANGED <<built_by, draws, prev_log, scale_srcs>>

\* DrawableSinglePlot::set_color
SetColor ==
    /\ pc = "drawable"
    /\ color = None
    /\ color' = "yellow"
    /\ UNCHANGED <<pc, curves, x_scale, y_scale, new_result, top_left,
                   bottom_right, text_color, axis_color, axis, marks,
                   tick_bound, ci, curve, into_result, seg, log, result>>
    /\ UNCHANGED <<built_by, draws, prev_log, scale_srcs>>

\* DrawableSinglePlot::set_text_color
SetTextColor ==
    /\ pc = "drawable"
    /\ text_color = None
    /\ text_color' = "white"
    /\ UNCHANGED <<pc, curves, x_scale, y_scale, new_result, top_left,
                   bottom_right, color, axis_color, axis, marks, tick_bound,
                   ci, curve, into_result, seg, log, result>>
    /\ UNCHANGED <<built_by, draws, prev_log, scale_srcs>>

\* DrawableSinglePlot::set_axis_color
SetAxisColor ==
    /\ pc = "drawable"
    /\ axis_color = None
    /\ axis_color' = "cyan"
    /\ UNCHANGED <<pc, curves, x_scale, y_scale, new_result, top_left,
                   bottom_right, color, text_color, axis, marks, tick_bound,
                   ci, curve, into_result, seg, log, result>>
    /\ UNCHANGED <<built_by, draws, prev_log, scale_srcs>>

\* DrawableSinglePlot::draw, up to the horizontal axis it builds
Draw ==
    /\ pc = "drawable"
    /\ IF Len(curves) = 0
       THEN /\ pc' = "panic"
            /\ result' = IndexPanic
            /\ UNCHANGED axis
       ELSE /\ pc' = "axis_marks"
            /\ axis' = XAxis
            /\ UNCHANGED result
    /\ UNCHANGED <<curves, x_scale, y_scale, new_result, top_left, bottom_right,
                   color, text_color, axis_color, marks, tick_bound, ci, curve,
                   into_result, seg, log>>
    /\ UNCHANGED <<built_by, draws, prev_log, scale_srcs>>

\* DrawableAxis::draw: the tick iterator, built before anything is drawn
AxisScaleMarks ==
    /\ pc = "axis_marks"
    /\ IF ScaleMarksPanics(axis)
       THEN /\ pc' = "panic"
            /\ result' = DivPanic
            /\ UNCHANGED marks
       ELSE /\ pc' = "axis_line"
            /\ marks' = ScaleMarks(axis)
            /\ UNCHANGED result
    /\ UNCHANGED <<curves, x_scale, y_scale, new_result, top_left, bottom_right,
                   color, text_color, axis_color, axis, tick_bound, ci, curve,
                   into_result, seg, log>>
    /\ UNCHANGED <<built_by, draws, prev_log, scale_srcs>>

\* DrawableAxis::draw: the main line
AxisLine ==
    /\ pc = "axis_line"
    /\ \E r \in Outcomes :
          /\ log' = Append(log, AxisLineCall(axis, r))
          /\ IF r = "Ok"
             THEN /\ pc' = IF axis.placement.kind = "X" /\ axis.title # None
                           THEN "axis_title"
                           ELSE TicksPc(axis, marks)
                  /\ tick_bound' = IF axis.placement.kind = "Y" THEN I32Max ELSE tick_bound
                  /\ UNCHANGED result
             ELSE /\ pc' = "done"
                  /\ result' = r
                  /\ UNCHANGED tick_bound
    /\ UNCHANGED <<curves, x_scale, y_scale, new_result, top_left, bottom_right,
                   color, text_color, axis_color, axis, marks, ci, curve,
                   into_result, seg>>
    /\ UNCHANGED <<built_by, draws, prev_log, scale_srcs>>

\* DrawableAxis::draw: the title, before the ticks of a horizontal axis and
\* after those of a vertical one
AxisTitle ==
    /\ pc = "axis_title"
    /\ \E r \in Outcomes :
          /\ log' = Append(log, AxisTitleCall(axis, tick_bound, r))
          /\ IF r = "Ok"
             THEN /\ pc' = IF axis.placement.kind = "X"
                           THEN TicksPc(axis, marks)
                           ELSE "axis_done"
                  /\ UNCHANGED result
             ELSE /\ pc' = "done"
                  /\ result' = r
    /\ UNCHANGED <<curves, x_scale, y_scale, new_result, top_left, bottom_right,
                   color, text_color, axis_color, axis, marks, tick_bound, ci,
                   curve, into_result, seg>>
    /\ UNCHANGED <<built_by, draws, prev_log, scale_srcs>>

\* DrawableAxis::draw: the tick segment of the next mark
AxisTick ==
    /\ pc = "axis_tick"
    /\ \E r \in Outcomes :
          /\ log' = Append(log, AxisTickCall(axis, Head(marks), r))
          /\ IF r = "Ok"
             THEN /\ pc' = "axis_label"
                  /\ UNCHANGED result
             ELSE /\ pc' = "done"
                  /\ result' = r
    /\ scale_srcs' = scale_srcs \cup {axis.range}
    /\ UNCHANGED <<curves, x_scale, y_scale, new_result, top_left, bottom_right,
                   color, text_color, axis_color, axis, marks, tick_bound, ci,
                   curve, into_result, seg>>
    /\ UNCHANGED <<built_by, draws, prev_log>>

\* DrawableAxis::draw: the label of that mark; the loop then takes the next mark
AxisLabel ==
    /\ pc = "axis_label"
    /\ tick_bound' =
          IF axis.placement.kind = "Y"
             /\ TextLeft(axis.placement.at, Format(Head(marks))) < tick_bound
          THEN TextLeft(axis.placement.at, Format(Head(marks)))
          ELSE tick_bound
    /\ \E r \in Outcomes :
          /\ log' = Append(log, AxisLabelCall(axis, Head(marks), r))
          /\ IF r = "Ok"
             THEN /\ marks' = Tail(marks)
                  /\ pc' = TicksPc(axis, Tail(marks))
                  /\ UNCHANGED result
             ELSE /\ pc' = "done"
                  /\ result' = r
                  /\ UNCHANGED marks
    /\ UNCHANGED <<curves, x_scale, y_scale, new_result, top_left, bottom_right,
                   color, text_color, axis_color, axis, ci, curve, into_result,
                   seg>>
    /\ UNCHANGED <<built_by, draws, prev_log, scale_srcs>>

\* DrawableAxis::draw returned Ok: the plot builds the vertical axis after the
\* horizontal one, and enters the curve loop after the vertical one; at the
\* stand-alone axis entry point that Ok is the caller's result
AxisReturn ==
    /\ pc = "axis_done"
    /\ IF new_result # "Ok"
       THEN /\ pc' = "done"
            /\ result' = "Ok"
            /\ UNCHANGED <<axis, ci>>
       ELSE IF axis.placement.kind = "X"
       THEN /\ axis' = YAxis
            /\ pc' = "axis_marks"
            /\ UNCHANGED <<ci, result>>
       ELSE /\ pc' = "curves"
            /\ ci' = 1
            /\ UNCHANGED <<axis, result>>
    /\ UNCHANGED <<curves, x_scale, y_scale, new_result, top_left, bottom_right,
                   color, text_color, axis_color, marks, tick_bound, curve,
                   into_result, seg, log>>
    /\ UNCHANGED <<built_by, draws, prev_log, scale_srcs>>

\* a variant of CurveAt that walks the collection from its end
CurveAtReversed(i) == Len(curves) + 1 - i

\* `for curve in self.plot.curves`: the entry iteration i of the loop takes
CurveAt(i) == i

\* a variant of PlotCurve that unwraps the result of into_drawable_curve
PlotCurveUnwraps ==
    /\ pc = "curves"
    /\ ci <= Len(curves)
    /\ into_result' = IF IntoDrawableCurveErr(curves[CurveAt(ci)].curve, top_left, bottom_right)
                      THEN "Err" ELSE "Ok"
    /\ curve' = curves[CurveAt(ci)].curve
    /\ IF into_result' = "Err"
       THEN /\ pc' = "panic"
            /\ result' = "panic: unwrap on Err"
            /\ UNCHANGED <<ci, seg>>
       ELSE IF Len(curve'.points) < 2
       THEN /\ ci' = ci + 1
            /\ UNCHANGED <<pc, seg, result>>
       ELSE /\ pc' = "curve_draw"
            /\ seg' = 1
            /\ UNCHANGED <<ci, result>>
    /\ scale_srcs' = IF into_result' = "Err" THEN scale_srcs
                      ELSE scale_srcs \cup ScaleSrcsOf(curve')
    /\ UNCHANGED <<curves, x_scale, y_scale, new_result, top_left, bottom_right,
                   color, text_color, axis_color, axis, marks, tick_bound, log,
                   built_by, draws, prev_log>>

\* the curve loop of DrawableSinglePlot::draw: into_drawable_curve on the next
\* curve, which is skipped when that fails
PlotCurve ==
    /\ pc = "curves"
    /\ ci <= Len(curves)
    /\ into_result' = IF IntoDrawableCurveErr(curves[CurveAt(ci)].curve, top_left, bottom_right)
                      THEN "Err" ELSE "Ok"
    /\ curve' = curves[CurveAt(ci)].curve
    /\ IF into_result' = "Err" \/ Len(curve'.points) < 2
       THEN /\ ci' = ci + 1
            /\ UNCHANGED <<pc, seg>>
       ELSE /\ pc' = "curve_draw"
            /\ seg' = FirstWindow(seg)
            /\ UNCHANGED ci
    /\ scale_srcs' = IF into_result' = "Err" THEN scale_srcs
                      ELSE scale_srcs \cup ScaleSrcsOf(curve')
    /\ UNCHANGED <<curves, x_scale, y_scale, new_result, top_left, bottom_right,
                   color, text_color, axis_color, axis, marks, tick_bound, log,
                   result>>
    /\ UNCHANGED <<built_by, draws, prev_log>>

\* the curve loop is exhausted: DrawableSinglePlot::draw returns Ok
PlotReturn ==
    /\ pc = "curves"
    /\ ci > Len(curves)
    /\ pc' = "done"
    /\ result' = "Ok"
    /\ UNCHANGED <<curves, x_scale, y_scale, new_result, top_left, bottom_right,
                   color, text_color, axis_color, axis, marks, tick_bound, ci,
                   curve, into_result, seg, log>>
    /\ UNCHANGED <<built_by, draws, prev_log, scale_srcs>>

\* the color of the DrawableCurve being drawn
CurveColor == IF ci = 0 THEN DefaultColor ELSE curves[CurveAt(ci)].color

\* the line of tuple window k of scaled_data
SegmentCall(c, k, r) ==
    LineCall("curve", IF ci = 0 THEN 0 ELSE CurveAt(ci), "segment",
             ScaledPoint(c, c.points[k], top_left, bottom_right),
             ScaledPoint(c, c.points[k + 1], top_left, bottom_right),
             CurveColor, r)

\* DrawableCurve::draw: one step of try_for_each over the tuple windows
CurveSegment ==
    /\ pc = "curve_draw"
    /\ \E r \in Outcomes :
          /\ log' = Append(log, SegmentCall(curve, seg, r))
          /\ IF r # "Ok"
             THEN /\ pc' = "done"
                  /\ result' = r
                  /\ UNCHANGED <<seg, ci>>
             ELSE IF seg + 1 < Len(curve.points)
             THEN /\ seg' = seg + 1
                  /\ UNCHANGED <<pc, ci, result>>
             ELSE IF ci = 0
             THEN /\ pc' = "done"
                  /\ result' = "Ok"
                  /\ UNCHANGED <<seg, ci>>
             ELSE /\ pc' = "curves"
                  /\ ci' = ci + 1
                  /\ UNCHANGED <<seg, result>>
    /\ scale_srcs' = scale_srcs \cup ScaleSrcsOf(curve)
    /\ UNCHANGED <<curves, x_scale, y_scale, new_result, top_left, bottom_right,
                   color, text_color, axis_color, axis, marks, tick_bound, curve,
                   into_result>>
    /\ UNCHANGED <<built_by, draws, prev_log>>

\* Curve::from_data(points)
CurveFromData ==
    /\ pc = "start"
    /\ \E ps \in SeqsUpTo(SamplePoints, MaxPoints) : curve' = FromData(ps)
    /\ pc' = "curve"
    /\ UNCHANGED <<curves, x_scale, y_scale, new_result, top_left, bottom_right,
                   color, text_color, axis_color, axis, marks, tick_bound, ci,
                   into_result, seg, log, result>>
    /\ built_by' = "from_data"
    /\ UNCHANGED <<draws, prev_log, scale_srcs>>

\* Curve::new(points, x_range, y_range)
CurveCreate ==
    /\ pc = "start"
    /\ \E ps \in SeqsUpTo({Pt(1, 1), Pt(2, 4)}, MaxPoints), xr \in Extents, yr \in Extents :
          curve' = CurveNew(ps, xr, yr)
    /\ pc' = "curve"
    /\ UNCHANGED <<curves, x_scale, y_scale, new_result, top_left, bottom_right,
                   color, text_color, axis_color, axis, marks, tick_bound, ci,
                   into_result, seg, log, result>>
    /\ built_by' = "new"
    /\ UNCHANGED <<draws, prev_log, scale_srcs>>

\* Curve::into_drawable_curve(top_left, bottom_right) at the curve entry point
CurveIntoDrawable ==
    /\ pc = "curve"
    /\ \E r \in Rects :
          /\ top_left' = r[1]
          /\ bottom_right' = r[2]
          /\ into_result' = IF IntoDrawableCurveErr(curve, r[1], r[2]) THEN "Err" ELSE "Ok"
    /\ pc' = IF into_result' = "Err" THEN "curve_err" ELSE "curve_ready"
    /\ UNCHANGED <<curves, x_scale, y_scale, new_result, color, text_color,
                   axis_color, axis, marks, tick_bound, ci, curve, seg, log,
                   result>>
    /\ UNCHANGED <<built_by, draws, prev_log, scale_srcs>>

\* the stand-alone DrawableCurve has been drawn and can be drawn again
Redrawable ==
    /\ pc = "done"
    /\ built_by # "none"
    /\ into_result = "Ok"
    /\ draws < MaxDraws

\* DrawableCurve::draw at the curve entry point, on a target that has
\* received nothing yet: the first draw of the DrawableCurve, or a further one
CurveDraw ==
    /\ pc = "curve_ready" \/ Redrawable
    /\ draws' = draws + 1
    /\ prev_log' = log
    /\ log' = <<>>
    /\ IF Len(curve.points) < 2
       THEN /\ pc' = "done"
            /\ result' = "Ok"
            /\ UNCHANGED seg
       ELSE /\ pc' = "curve_draw"
            /\ seg' = FirstWindow(seg)
            /\ result' = "none"
    /\ UNCHANGED <<curves, x_scale, y_scale, new_result, top_left, bottom_right,
                   color, text_color, axis_color, axis, marks, tick_bound, ci,
                   curve, into_result>>
    /\ scale_srcs' = scale_srcs \cup ScaleSrcsOf(curve)
    /\ UNCHANGED built_by

\* Axis::new(range).set_scale(scale), with or without set_title(title), then
\* into_drawable_axis(placement): the stand-alone axis entry point
AxisCreate ==
    /\ pc = "start"
    /\ \E r \in Extents, sc \in Scales, t \in Titles, pl \in Placements :
          axis' = [range |-> r, title |-> t, scale |-> sc, placement |-> pl,
                   color |-> None, text_color |-> None,
                   tick_size |-> DefaultTickSize]
    /\ pc' = "axis_marks"
    /\ UNCHANGED <<curves, x_scale, y_scale, new_result, top_left, bottom_right,
                   color, text_color, axis_color, marks, tick_bound, ci, curve,
                   into_result, seg, log, result>>
    /\ UNCHANGED <<built_by, draws, prev_log, scale_srcs>>

Next ==
    \/ New
    \/ IntoDrawable
    \/ SetColor
    \/ SetTextColor
    \/ SetAxisColor
    \/ Draw
    \/ AxisScaleMarks
    \/ AxisLine
    \/ AxisTitle
    \/ AxisTick
    \/ AxisLabel
    \/ AxisReturn
    \/ PlotCurve
    \/ PlotReturn
    \/ CurveSegment
    \/ CurveFromData
    \/ CurveCreate
    \/ CurveIntoDrawable
    \/ CurveDraw
    \/ AxisCreate

Spec == Init /\ [][Next]_vars

(***************************************************************************)
(* Properties                                                              *)
(***************************************************************************)
\* a plot was built, as opposed to a stand-alone curve or axis
InPlot == new_result = "Ok"

ValidRect == top_left.x <= bottom_right.x /\ top_left.y <= bottom_right.y
InX(v) == top_left.x <= v /\ v <= bottom_right.x
InY(v) == top_left.y <= v /\ v <= bottom_right.y
Inside(p) == InX(p.x) /\ InY(p.y)

Xs(c) == [i \in 1..Len(c.points) |-> c.points[i].x]
Ys(c) == [i \in 1..Len(c.points) |-> c.points[i].y]
AllSame(vals) == \A i, j \in DOMAIN vals : vals[i] = vals[j]
ExtentEmpty(r) == r.start >= r.end

\* every sample of c lies within c's extents, as from_data guarantees
PointsWithinExtents(c) ==
    \A i \in 1..Len(c.points) :
        /\ c.x_range.start <= c.points[i].x /\ c.points[i].x <= c.x_range.end
        /\ c.y_range.start <= c.points[i].y /\ c.points[i].y <= c.y_range.end

\* the end-to-end scenario of the examples
EndToEnd ==
    /\ InPlot
    /\ curves = <<[curve |-> FromData(Example1), color |-> "yellow"]>>
    /\ x_scale = RangeFraction(3)
    /\ y_scale = RangeFraction(2)
    /\ top_left = Pt(50, 10)
    /\ bottom_right = Pt(430, 250)

\* C1 (as claimed): for every data range and every Scale, Fixed(0) and
\* RangeFraction(0) included, tick generation does not divide by zero and the
\* ticks it generates are those of some step of at least 1.
C1_ZeroStepTreatedAsOne ==
    /\ result # DivPanic
    /\ pc = "axis_line" =>
          \E st \in 1..Max(RangeLen(axis.range), 1) : marks = StepBy(axis.range, st)

\* C2 (as claimed): no draw call of a plot drawn into a rectangle has a
\* coordinate outside that rectangle.
C2_AllCallsInsideRect ==
    (InPlot /\ ValidRect) =>
        \A i \in DOMAIN log : Inside(log[i].start) /\ Inside(log[i].end)

\* what C2 leaves true of one draw call e of a plot
CallPlacedAsDrawn(e) ==
    CASE e.part = "line" -> Inside(e.start) /\ Inside(e.end)
      [] e.part = "tick" /\ e.comp = "X" ->
            /\ e.start.x = e.end.x /\ InX(e.start.x)
            /\ e.start.y = bottom_right.y - 2 /\ e.end.y = bottom_right.y + 2
      [] e.part = "tick" /\ e.comp = "Y" ->
            /\ e.start.y = e.end.y /\ InY(e.start.y)
            /\ e.start.x = top_left.x - 2 /\ e.end.x = top_left.x + 2
      [] e.part = "label" /\ e.comp = "X" ->
            InX(e.start.x - 2) /\ e.start.y = bottom_right.y + 2
      [] e.part = "label" /\ e.comp = "Y" ->
            e.start.x = top_left.x /\ InY(e.start.y)
      [] e.part = "title" /\ e.comp = "X" ->
            InX(e.start.x) /\ e.start.y = bottom_right.y + 10
      [] e.part = "title" /\ e.comp = "Y" -> InY(e.start.y) /\ ~InX(e.start.x)
      [] e.part = "segment" ->
            PointsWithinExtents(curves[e.idx].curve) => Inside(e.start) /\ Inside(e.end)

\* C2 (amended): in a plot drawn into a rectangle, the axis lines, every
\* tick's position along its axis and the segments of every curve whose samples
\* lie within its extents stay inside the rectangle; tick segments reach 2
\* pixels across the axis line on both sides, the labels of the horizontal
\* axis sit 2 pixels below it and its title 10 pixels below it, and the title
\* of the vertical axis lies beside the rectangle.
C2_CallsPlacedAroundRect ==
    (InPlot /\ ValidRect) => \A i \in DOMAIN log : CallPlacedAsDrawn(log[i])

\* C2 witness: the end-to-end scenario has been drawn to the end.
C2_EndToEndDrawn == EndToEnd /\ result = "Ok" /\ Len(log) = 17

\* C3 (as claimed): the texts of the axes are drawn in the plot's text color
\* and their lines and ticks in its axis color, each falling back to the
\* plot-level color.
C3_TextUsesTextColor ==
    InPlot =>
        \A i \in DOMAIN log :
            log[i].comp \in {"X", "Y"} =>
                log[i].color = IF log[i].op = "text" THEN PlotTextColor ELSE PlotAxisColor

\* C4: into_drawable_curve returns an error exactly when the rectangle is
\* inverted in x or in y or an extent is empty; a from_data curve of no point,
\* one point, or points that agree in x or in y gets an error for every
\* rectangle; and no panic comes of it.
C4_IntoDrawableCurveErrors ==
    /\ into_result # "none" =>
          (into_result = "Err" <=>
              \/ top_left.x > bottom_right.x
              \/ top_left.y > bottom_right.y
              \/ ExtentEmpty(curve.x_range)
              \/ ExtentEmpty(curve.y_range))
    /\ (built_by = "from_data" /\ into_result # "none"
            /\ (AllSame(Xs(curve)) \/ AllSame(Ys(curve)))) => into_result = "Err"
    /\ built_by # "none" => pc # "panic"

\* C4 witness: three samples that agree in x only were rejected for a valid
\* rectangle.
C4_SameXRejected ==
    /\ built_by = "from_data"
    /\ into_result = "Err"
    /\ Len(curve.points) = 3
    /\ AllSame(Xs(curve))
    /\ ~AllSame(Ys(curve))
    /\ ValidRect

\* C5 (as claimed, on the non-empty ranges): RangeFraction(n), n >= 1, over a
\* range of length L >= 1 yields exactly n ticks, the k-th (from 0) at
\* start + k * (L / n).
C5_RangeFractionTicks ==
    (pc = "axis_line" /\ axis.scale.kind = "RangeFraction" /\ axis.scale.n >= 1
        /\ RangeLen(axis.range) >= 1) =>
        /\ Len(marks) = axis.scale.n
        /\ \A k \in 1..Len(marks) :
              marks[k] = axis.range.start + (k - 1) * (RangeLen(axis.range) \div axis.scale.n)

\* where a draw call comes in the order of a plot's draw
Rank(e) == IF e.comp = "X" THEN 1 ELSE IF e.comp = "Y" THEN 2 ELSE 2 + e.idx

IsCurveCall(e) == e.comp = "curve"
IsYTick(e) == e.comp = "Y" /\ e.part = "tick"
AllCallsOk == \A i \in DOMAIN log : log[i].res = "Ok"

\* the segments of curve i the target received, in order
SegmentsOf(i) == SelectSeq(log, LAMBDA e : e.comp = "curve" /\ e.idx = i)

\* C6: the draw calls of a plot come in a fixed order: those of the X axis,
\* then those of the Y axis, then the segments of the curves in collection
\* order; a curve segment comes only after draw calls of both axes.
C6_DrawOrder ==
    InPlot =>
        /\ \A i \in 1..(Len(log) - 1) : Rank(log[i]) <= Rank(log[i + 1])
        /\ \A j \in DOMAIN log :
              IsCurveCall(log[j]) =>
                  /\ \E i \in 1..(j - 1) : log[i].comp = "X"
                  /\ \E i \in 1..(j - 1) : log[i].comp = "Y"

\* C6 witness: a plot of two curves was drawn to the end, segments of both.
C6_TwoCurvesDrawn ==
    /\ InPlot
    /\ result = "Ok"
    /\ SegmentsOf(1) # <<>>
    /\ SegmentsOf(2) # <<>>

\* the half of C7 that is about a failing draw call: no call follows a failed
\* call, and the draw returns the error of that call at once
ErrorPropagates ==
    /\ \A i \in 1..(Len(log) - 1) : log[i].res = "Ok"
    /\ (log # <<>> /\ log[Len(log)].res \in Errors) =>
          (pc = "done" /\ result = log[Len(log)].res)
    /\ result \in Errors => (log # <<>> /\ log[Len(log)].res = result)

\* C7 (as claimed): a failed draw call ends the draw at once with that error
\* and no further call; a draw none of whose calls fails returns Ok.
C7_FirstErrorOrOk ==
    /\ ErrorPropagates
    /\ (pc \in {"done", "panic"} /\ AllCallsOk) => result = "Ok"

\* into_drawable_curve of curve i of the plot fails
Rejected(i) ==
    \/ top_left.x > bottom_right.x
    \/ top_left.y > bottom_right.y
    \/ ExtentEmpty(curves[i].curve.x_range)
    \/ ExtentEmpty(curves[i].curve.y_range)

\* the curve loop of the plot is past curve i
LoopPast(i) == pc \in {"curves", "curve_draw", "done"} /\ ci > i

\* C8: a curve of a plot whose into_drawable_curve fails is skipped without
\* a draw call and without ending the draw: both axes were drawn before it,
\* the valid curves before and after it are drawn in full, and the draw
\* returns Ok when no draw call failed.
C8_InvalidCurveSkipped ==
    InPlot =>
        /\ \A i \in 1..Len(curves) :
              LoopPast(i) =>
                  /\ \E j \in DOMAIN log : log[j].comp = "X" /\ log[j].part = "line"
                  /\ \E j \in DOMAIN log : log[j].comp = "Y" /\ log[j].part = "line"
                  /\ Len(SegmentsOf(i)) =
                        IF Rejected(i) THEN 0
                        ELSE Max(Len(curves[i].curve.points) - 1, 0)
        /\ ci >= 1 => pc # "panic"
        /\ (pc = "done" /\ AllCallsOk) => (result = "Ok" /\ ci = Len(curves) + 1)

\* C8 witness: the first curve of two was skipped, the second drawn, and the
\* draw returned Ok.
C8_SkippedThenDrawn ==
    /\ InPlot
    /\ Len(curves) = 2
    /\ ValidRect
    /\ Rejected(1)
    /\ SegmentsOf(1) = <<>>
    /\ SegmentsOf(2) # <<>>
    /\ result = "Ok"

\* C9: SinglePlot::new returns an error for the empty collection and a plot
\* for every other one, so a draw finds the first curve, whose extents the
\* axes take.
C9_NewRejectsOnlyEmpty ==
    /\ new_result # "none" => (new_result = "Err" <=> Len(curves) = 0)
    /\ new_result = "Err" => pc = "rejected"
    /\ result # IndexPanic
    /\ (InPlot /\ axis.placement.kind = "X") => axis.range = curves[1].curve.x_range
    /\ (InPlot /\ axis.placement.kind = "Y") => axis.range = curves[1].curve.y_range

\* C9 witness: the empty collection was rejected.
C9_EmptyRejected == new_result = "Err" /\ curves = <<>> /\ pc = "rejected"

\* the ticks of the vertical axis the target received, in order
YTicks == SelectSeq(log, IsYTick)

\* C10: with y1 < y2, the first tick of the vertical axis (the range's start)
\* is drawn at y2, the pixel y of its ticks never increases, and the range's
\* end maps to y1; a curve maps the start of its y extent to bottom_right.y
\* and the end to top_left.y.
C10_VerticalInverted ==
    (InPlot /\ top_left.y < bottom_right.y) =>
        /\ YTicks # <<>> => YTicks[1].start.y = bottom_right.y
        /\ \A k \in 1..(Len(YTicks) - 1) : YTicks[k + 1].start.y <= YTicks[k].start.y
        /\ (axis.placement.kind = "Y" /\ ~RangeIsEmpty(axis.range)) =>
              /\ TickPos(axis, axis.range.start) = bottom_right.y
              /\ TickPos(axis, axis.range.end) = top_left.y
        /\ \A i \in 1..Len(curves) :
              LET c == curves[i].curve
                  s == SegmentsOf(i)
                  MapsTo(y, py) == /\ y = c.y_range.start => py = bottom_right.y
                                   /\ y = c.y_range.end => py = top_left.y
              IN  \A k \in 1..Len(s) :
                      /\ MapsTo(c.points[k].y, s[k].start.y)
                      /\ MapsTo(c.points[k + 1].y, s[k].end.y)

\* C10 witness: two ticks of the vertical axis and a curve were drawn.
C10_TicksAndCurveDrawn ==
    /\ InPlot
    /\ top_left.y < bottom_right.y
    /\ Len(YTicks) >= 2
    /\ SegmentsOf(1) # <<>>
    /\ result = "Ok"

\* a draw call as issued, whatever the target made of it
Issued(e) == [e EXCEPT !.res = "Ok"]
Calls(l) == [i \in 1..Len(l) |-> Issued(l[i])]
IsPrefix(a, b) == Len(a) <= Len(b) /\ \A i \in 1..Len(a) : a[i] = b[i]

\* segs are line calls that connect, in sample order, the mapped points of c:
\* the k-th goes from the mapped point of sample k to that of sample k + 1
ConnectsInOrder(segs, c) ==
    LET d == ScaledData(c, top_left, bottom_right)
    IN  /\ Len(d) = Len(c.points)
        /\ Len(segs) <= Max(Len(c.points) - 1, 0)
        /\ \A k \in 1..Len(segs) :
              /\ segs[k].op = "line"
              /\ segs[k].start = d[k]
              /\ segs[k].end = d[k + 1]

\* a draw of c that returned Ok issued n - 1 calls, none when n <= 1
FullyDrawn(segs, c) == Len(segs) = Max(Len(c.points) - 1, 0)

\* C11: the draw of a valid curve of n samples issues line calls only, the
\* k-th from the mapped point of sample k to that of sample k + 1, with one
\* mapped point per sample, and n - 1 of them (none when n <= 1) when it
\* returns Ok, stand-alone and in a plot alike; a further draw of the same
\* DrawableCurve issues the same calls from the first on, the same sequence
\* when both draws return Ok.
C11_CurveSegments ==
    /\ (built_by # "none" /\ draws >= 1) =>
          /\ ConnectsInOrder(log, curve)
          /\ ConnectsInOrder(prev_log, curve)
          /\ result = "Ok" => FullyDrawn(log, curve)
          /\ draws >= 2 =>
                /\ IsPrefix(Calls(log), Calls(prev_log)) \/ IsPrefix(Calls(prev_log), Calls(log))
                /\ (result = "Ok" /\ FullyDrawn(prev_log, curve)) => Calls(log) = Calls(prev_log)
    /\ InPlot =>
          \A i \in 1..Len(curves) :
              ~Rejected(i) =>
                  /\ ConnectsInOrder(SegmentsOf(i), curves[i].curve)
                  /\ LoopPast(i) => FullyDrawn(SegmentsOf(i), curves[i].curve)

\* C11 witness: a stand-alone curve of three samples was drawn twice to the
\* end, two calls each time.
C11_DrawnTwice ==
    /\ built_by = "from_data"
    /\ Len(curve.points) = 3
    /\ draws = 2
    /\ result = "Ok"
    /\ Len(log) = 2
    /\ Len(prev_log) = 2

IsTick(e) == e.part = "tick"

\* the ticks of axis k ("X" or "Y") the target received
TicksOf(k) == SelectSeq(log, LAMBDA e : IsTick(e) /\ e.comp = k)

\* C12: scale_between_ranges is never called with a source range whose end
\* equals its start: an axis over an empty or reversed range yields no mark,
\* draws no tick and makes no scale call, a curve with an empty or reversed
\* extent is rejected by into_drawable_curve, so that none of its points is
\* mapped and none of its segments drawn, and every source range of a call is
\* a range with start < end.
C12_ScaleSourceNonDegenerate ==
    /\ \A r \in scale_srcs : r.start # r.end /\ ~RangeIsEmpty(r)
    /\ (pc \in {"axis_line", "axis_title", "axis_tick", "axis_label", "axis_done"}
            /\ RangeIsEmpty(axis.range)) =>
          /\ marks = <<>>
          /\ TicksOf(axis.placement.kind) = <<>>
    /\ (~InPlot /\ built_by = "none" /\ RangeIsEmpty(axis.range)) => scale_srcs = {}
    /\ InPlot =>
          /\ (Len(curves) >= 1 /\ RangeIsEmpty(curves[1].curve.x_range)) => TicksOf("X") = <<>>
          /\ (Len(curves) >= 1 /\ RangeIsEmpty(curves[1].curve.y_range)) => TicksOf("Y") = <<>>
          /\ \A i \in 1..Len(curves) :
                (RangeIsEmpty(curves[i].curve.x_range) \/ RangeIsEmpty(curves[i].curve.y_range)) =>
                    /\ SegmentsOf(i) = <<>>
                    /\ (LoopPast(i) /\ ci = i + 1 /\ pc = "curves") => into_result = "Err"
    /\ (built_by # "none"
            /\ (RangeIsEmpty(curve.x_range) \/ RangeIsEmpty(curve.y_range))) =>
          /\ into_result # "Ok"
          /\ draws = 0
          /\ log = <<>>
          /\ scale_srcs = {}

\* C12 witness: a plot whose first curve has empty extents was drawn to the
\* end: its axes without a tick, that curve rejected, and its second curve
\* mapped from its own extents and drawn.
C12_EmptyExtentsPlotDrawn ==
    /\ InPlot
    /\ result = "Ok"
    /\ Len(curves) = 2
    /\ RangeIsEmpty(curves[1].curve.x_range)
    /\ TicksOf("X") = <<>>
    /\ TicksOf("Y") = <<>>
    /\ SegmentsOf(1) = <<>>
    /\ SegmentsOf(2) # <<>>
    /\ scale_srcs = {curves[2].curve.x_range, curves[2].curve.y_range}

====
